---- MODULE Spec2Model ----
(***************************************************************************)
(* Model of src/backend/bridge/dml/executor/plan_executor.cpp (PelotonDB): *)
(* BuildExecutorTree, AddMaterialization, CleanExecutorTree and            *)
(* PlanExecutor::ExecutePlan.                                              *)
(*                                                                         *)
(* Pointers are naturals; NULL (0) is nullptr.  The caller's plan tree is  *)
(* a sequence of plan nodes, node 1 being the root; executors and executor *)
(* contexts live in a heap `mem` and are named by allocation order.        *)
(***************************************************************************)
EXTENDS Naturals, Integers, Sequences, FiniteSets, TLC

\* ------------------------------------------------------------------ bounds
\* Largest number of nodes of a plan tree handed to ExecutePlan.
MaxPlanNodes == 3
\* Largest number of Execute() calls of the root that return true.
MaxPulls == 2
\* Largest number of tuples the root's batches hold over one execution.
MaxRows == 2

\* ------------------------------------------------------------ plan nodes
NULL == 0

\* The plan node types BuildExecutorTree switches on; PLAN_NODE_TYPE_OTHER
\* stands for every type that reaches the switch's default branch.
PlanNodeTypes ==
    { "PLAN_NODE_TYPE_INVALID", "PLAN_NODE_TYPE_SEQSCAN",
      "PLAN_NODE_TYPE_INDEXSCAN", "PLAN_NODE_TYPE_INSERT",
      "PLAN_NODE_TYPE_DELETE", "PLAN_NODE_TYPE_UPDATE",
      "PLAN_NODE_TYPE_LIMIT", "PLAN_NODE_TYPE_NESTLOOP",
      "PLAN_NODE_TYPE_MERGEJOIN", "PLAN_NODE_TYPE_PROJECTION",
      "PLAN_NODE_TYPE_MATERIALIZE", "PLAN_NODE_TYPE_AGGREGATE_V2",
      "PLAN_NODE_TYPE_ORDERBY", "PLAN_NODE_TYPE_OTHER" }

\* The executor class the switch constructs for a plan node type, "" if none.
ExecutorClass(plan_node_type) ==
    CASE plan_node_type = "PLAN_NODE_TYPE_INVALID"      -> ""
      [] plan_node_type = "PLAN_NODE_TYPE_SEQSCAN"      -> "SeqScanExecutor"
      [] plan_node_type = "PLAN_NODE_TYPE_INDEXSCAN"    -> "IndexScanExecutor"
      [] plan_node_type = "PLAN_NODE_TYPE_INSERT"       -> "InsertExecutor"
      [] plan_node_type = "PLAN_NODE_TYPE_DELETE"       -> "DeleteExecutor"
      [] plan_node_type = "PLAN_NODE_TYPE_UPDATE"       -> "UpdateExecutor"
      [] plan_node_type = "PLAN_NODE_TYPE_LIMIT"        -> "LimitExecutor"
      [] plan_node_type = "PLAN_NODE_TYPE_NESTLOOP"     -> "NestedLoopJoinExecutor"
      [] plan_node_type = "PLAN_NODE_TYPE_MERGEJOIN"    -> "MergeJoinExecutor"
      [] plan_node_type = "PLAN_NODE_TYPE_PROJECTION"   -> "ProjectionExecutor"
      [] plan_node_type = "PLAN_NODE_TYPE_MATERIALIZE"  -> "MaterializationExecutor"
      [] plan_node_type = "PLAN_NODE_TYPE_AGGREGATE_V2" -> "AggregateExecutor"
      [] plan_node_type = "PLAN_NODE_TYPE_ORDERBY"      -> "OrderByExecutor"
      [] OTHER                                          -> ""

\* A plan tree of n nodes: nodes[i] = [type, parent], parent < i, parent of
\* the root is NULL.  The children of a node are kept in increasing order.
ParentMaps(n) ==
    { f \in [1..n -> 0..(n - 1)] :
        \A i \in 1..n : f[i] < i /\ (i > 1 => f[i] >= 1) }

\* One plan node type of each kind the code tells apart: two whose executor
\* gets wrapped when it is the root, one whose executor does not, one the
\* switch names and builds nothing for, and one of its default branch.
DeeperNodeTypes ==
    { "PLAN_NODE_TYPE_SEQSCAN", "PLAN_NODE_TYPE_INDEXSCAN",
      "PLAN_NODE_TYPE_PROJECTION", "PLAN_NODE_TYPE_INVALID",
      "PLAN_NODE_TYPE_OTHER" }

\* The types of the n nodes of a plan tree: the root and its first child
\* take every type, the nodes after them a type of DeeperNodeTypes.
TypeMaps(n) ==
    { ty \in [1..n -> PlanNodeTypes] :
        \A i \in 3..n : ty[i] \in DeeperNodeTypes }

PlanTree(ty, pa) ==
    [i \in DOMAIN ty |-> [type |-> ty[i], parent |-> pa[i]]]

\* plan->GetChildren(): the ordered children of plan node `plan`.
GetPlanChildren(nodes, plan) ==
    LET F[i \in 0..Len(nodes)] ==
          IF i = 0 THEN <<>>
          ELSE IF nodes[i].parent = plan THEN Append(F[i - 1], i) ELSE F[i - 1]
    IN  F[Len(nodes)]

\* ------------------------------------------------------ executor tree heap
\* mem.executors[e] is the executor object at pointer e: its class, the plan
\* node it was constructed from (GetRawNode), its executor context and its
\* ordered children.  mem.contexts[c] is the ExecutorContext at pointer c.
EmptyMem == [executors |-> <<>>, contexts |-> <<>>]

\* PlanTransformer::BuildParams(param_list): one Value per bound datum.
BuildParams(param_list) ==
    [i \in 1..Len(param_list) |-> [value |-> param_list[i]]]

\* new executor::ExecutorContext(txn, params)
NewContext(mem, txn, params) ==
    [mem EXCEPT !.contexts = Append(@, [txn |-> txn, params |-> params])]

\* new executor::<class>(node, executor_context); the new pointer is the
\* number of the allocation.
NewExecutor(mem, class, node, executor_context) ==
    [mem EXCEPT !.executors =
        Append(@, [class |-> class, node |-> node,
                   context |-> executor_context, children |-> <<>>])]

\* root->AddChild(child)
AddChild(mem, root, child) ==
    [mem EXCEPT !.executors[root].children = Append(@, child)]

RECURSIVE BuildExecutorTree(_, _, _, _, _, _)
RECURSIVE BuildChildren(_, _, _, _, _, _, _)

\* The loop `for (auto child : children) child_executor =
\* BuildExecutorTree(child_executor, child, param_list, txn);` from its i-th
\* iteration on; the loop's only lasting effect is on the heap.
BuildChildren(child_executor, children, i, param_list, txn, nodes, mem) ==
    IF i > Len(children) THEN mem
    ELSE LET r == BuildExecutorTree(child_executor, children[i], param_list,
                                    txn, nodes, mem)
         IN  BuildChildren(r.root, children, i + 1, param_list, txn, nodes,
                           r.mem)

\* BuildExecutorTree with the caller's root handed to the recursion in place
\* of child_executor.
BuildExecutorTreeUnderRoot(root, plan, param_list, txn, nodes, mem) ==
    IF plan = NULL THEN [root |-> root, mem |-> mem]
    ELSE
      LET params == BuildParams(param_list)
          mem1 == NewContext(mem, txn, params)
          executor_context == Len(mem1.contexts)
          class == ExecutorClass(nodes[plan].type)
          mem2 == IF class # ""
                  THEN NewExecutor(mem1, class, plan, executor_context)
                  ELSE mem1
          child_executor == IF class # "" THEN Len(mem2.executors) ELSE NULL
          mem3 == IF child_executor # NULL /\ root # NULL
                  THEN AddChild(mem2, root, child_executor)
                  ELSE mem2
          root1 == IF child_executor # NULL /\ root = NULL
                   THEN child_executor
                   ELSE root
      IN  [root |-> root1,
           mem |-> BuildChildren(root1, GetPlanChildren(nodes, plan),
                                 1, param_list, txn, nodes, mem3)]

\* BuildExecutorTree(root, plan, param_list, txn) on the plan tree `nodes`,
\* with heap `mem`: the returned root and the heap afterwards.
BuildExecutorTree(root, plan, param_list, txn, nodes, mem) ==
    IF plan = NULL THEN [root |-> root, mem |-> mem]
    ELSE
      LET params == BuildParams(param_list)
          mem1 == NewContext(mem, txn, params)
          executor_context == Len(mem1.contexts)
          class == ExecutorClass(nodes[plan].type)
          mem2 == IF class # ""
                  THEN NewExecutor(mem1, class, plan, executor_context)
                  ELSE mem1
          child_executor == IF class # "" THEN Len(mem2.executors) ELSE NULL
          mem3 == IF child_executor # NULL /\ root # NULL
                  THEN AddChild(mem2, root, child_executor)
                  ELSE mem2
          root1 == IF child_executor # NULL /\ root = NULL
                   THEN child_executor
                   ELSE root
      IN  [root |-> root1,
           mem |-> BuildChildren(child_executor, GetPlanChildren(nodes, plan),
                                 1, param_list, txn, nodes, mem3)]

\* NeedsMaterialization without the limit case.
NeedsMaterializationNoLimit(type) ==
    type \in { "PLAN_NODE_TYPE_MERGEJOIN", "PLAN_NODE_TYPE_NESTLOOP",
               "PLAN_NODE_TYPE_SEQSCAN", "PLAN_NODE_TYPE_INDEXSCAN" }

\* The plan node types whose root executor AddMaterialization wraps.
NeedsMaterialization(type) ==
    type \in { "PLAN_NODE_TYPE_MERGEJOIN", "PLAN_NODE_TYPE_NESTLOOP",
               "PLAN_NODE_TYPE_SEQSCAN", "PLAN_NODE_TYPE_INDEXSCAN",
               "PLAN_NODE_TYPE_LIMIT" }

\* PlanExecutor::AddMaterialization(root): the new root and the heap.
AddMaterialization(root, nodes, mem) ==
    IF root = NULL THEN [root |-> root, mem |-> mem]
    ELSE
      LET type == nodes[mem.executors[root].node].type
      IN  IF NeedsMaterialization(type)
          THEN LET mem1 == NewExecutor(mem, "MaterializationExecutor",
                                       NULL, NULL)
                   new_root == Len(mem1.executors)
               IN  [root |-> new_root, mem |-> AddChild(mem1, new_root, root)]
          ELSE [root |-> root, mem |-> mem]

RECURSIVE CleanExecutorTree(_, _, _)
RECURSIVE CleanChildren(_, _, _, _)

\* The loop `for (auto child : children) CleanExecutorTree(child);`.
CleanChildren(children, i, mem, deleted) ==
    IF i > Len(children) THEN deleted
    ELSE CleanChildren(children, i + 1, mem,
                       CleanExecutorTree(children[i], mem, deleted))

\* CleanExecutorTree(root): `deleted` is the sequence of executor pointers
\* passed to `delete` so far, in order; the result is that sequence after.
CleanExecutorTree(root, mem, deleted) ==
    IF root = NULL THEN deleted
    ELSE Append(CleanChildren(mem.executors[root].children, 1, mem, deleted),
                root)

\* ------------------------------------------------- external collaborators
\* The transaction manager keeps, per transaction id, the transaction's
\* state ("absent" when GetPGTransaction finds no handle) and its Result.
\* A transaction pointer is the id of the transaction it points to.
GetPGTransaction(table, id) ==
    IF table[id].state = "active" THEN id ELSE NULL

\* txn_manager.StartPGTransaction(txn_id): a fresh transaction.
StartPGTransaction(table, id) ==
    [table EXCEPT ![id] = [state |-> "active", result |-> "RESULT_SUCCESS"]]

\* txn->SetResult(result)
SetResult(table, t, result) == [table EXCEPT ![t].result = result]

\* txn->GetResult()
GetResult(table, t) == table[t].result

\* txn_manager.CommitTransaction(txn) and txn_manager.AbortTransaction(txn)
CommitTransaction(table, t) == [table EXCEPT ![t].state = "committed"]
AbortTransaction(table, t) == [table EXCEPT ![t].state = "aborted"]

\* TupleTransformer::GetPostgresTuple(&tuple, tuple_desc): <<>> is nullptr,
\* <<slot>> a host slot holding the tuple's values.  Tuple 0 stands for a
\* tuple that has no host representation.
GetPostgresTuple(tuple) ==
    IF tuple = 0 THEN <<>> ELSE << [tts_values |-> tuple] >>

\* ---------------------------------------------------- ExecutePlan's loops
RECURSIVE ExtractSlots(_, _, _)
RECURSIVE ExtractSlotsPrepends(_, _, _)

\* ExtractSlots with the slot put at the front of the list.
ExtractSlotsPrepends(slots, tuples, i) ==
    IF i > Len(tuples) THEN slots
    ELSE LET slot == GetPostgresTuple(tuples[i])
         IN  ExtractSlotsPrepends(IF slot # <<>> THEN <<slot[1]>> \o slots
                                  ELSE slots,
                                  tuples, i + 1)

\* `while (tile_itr.Next(tuple)) { slot = GetPostgresTuple(...); if (slot !=
\* nullptr) slots = lappend(slots, slot); }` from the i-th tuple of the base
\* tile on.
ExtractSlots(slots, tuples, i) ==
    IF i > Len(tuples) THEN slots
    ELSE LET slot == GetPostgresTuple(tuples[i])
         IN  ExtractSlots(IF slot # <<>> THEN Append(slots, slot[1])
                          ELSE slots,
                          tuples, i + 1)

\* NothingToExecute without the test.
NothingToExecuteNever(plan) == FALSE

\* `if (plan == nullptr) return;`
NothingToExecute(plan) == plan = NULL

\* AfterInit without the `goto cleanup`: a failed Init() falls through into
\* the pull loop.
AfterInitFallsThrough(status, table, t) ==
    IF status = FALSE
    THEN [init_failure |-> TRUE,
          table |-> SetResult(table, t, "RESULT_FAILURE"),
          pc |-> "execute"]
    ELSE [init_failure |-> FALSE, table |-> table, pc |-> "execute"]

\* What follows `status = executor_tree->Init()`: on failure init_failure is
\* set, the transaction's Result becomes RESULT_FAILURE and control jumps
\* to cleanup; otherwise the pull loop is entered.
AfterInit(status, table, t) ==
    IF status = FALSE
    THEN [init_failure |-> TRUE,
          table |-> SetResult(table, t, "RESULT_FAILURE"),
          pc |-> "cleanup"]
    ELSE [init_failure |-> FALSE, table |-> table, pc |-> "execute"]

\* What follows `status = executor_tree->Execute()`: false leaves the loop.
AfterExecute(status) ==
    IF status = FALSE THEN "set_slots" ELSE "get_output"

\* AfterGetOutput with `break` in place of `continue`.
AfterGetOutputBreaks(slots, tile) ==
    IF ~tile.has_tile
    THEN [slots |-> slots, pc |-> "set_slots"]
    ELSE [slots |-> ExtractSlots(slots, tile.tuples, 1), pc |-> "execute"]

\* AfterGetOutput going back to GetOutput() after a tile.
AfterGetOutputPullsAgain(slots, tile) ==
    IF ~tile.has_tile
    THEN [slots |-> slots, pc |-> "execute"]
    ELSE [slots |-> ExtractSlots(slots, tile.tuples, 1), pc |-> "get_output"]

\* The body of the pull loop after GetOutput(): a null tile is skipped
\* (`continue`), the tuples of any other tile are appended to slots; either
\* way the loop goes on with the next Execute().
AfterGetOutput(slots, tile) ==
    IF ~tile.has_tile
    THEN [slots |-> slots, pc |-> "execute"]
    ELSE [slots |-> ExtractSlots(slots, tile.tuples, 1), pc |-> "execute"]

\* FinalizeCall without the abort branch.
FinalizeCallCommitOnly(single_statement_txn, init_failure, result) ==
    IF (single_statement_txn = TRUE \/ init_failure = TRUE)
       /\ result = "RESULT_SUCCESS"
    THEN "CommitTransaction"
    ELSE ""

\* FinalizeCall without the ownership test.
FinalizeCallAnyOwner(single_statement_txn, init_failure, result) ==
    IF result = "RESULT_SUCCESS" THEN "CommitTransaction"
    ELSE "AbortTransaction"

\* FinalizeCall without the init_failure test.
FinalizeCallOwnedOnly(single_statement_txn, init_failure, result) ==
    IF single_statement_txn = TRUE
    THEN IF result = "RESULT_SUCCESS" THEN "CommitTransaction"
         ELSE "AbortTransaction"
    ELSE ""

\* FinalizeCall without the switch on the Result.
FinalizeCallCommits(single_statement_txn, init_failure, result) ==
    IF single_statement_txn = TRUE \/ init_failure = TRUE
    THEN "CommitTransaction"
    ELSE ""

\* The commit-or-abort decision at the cleanup label: the transaction
\* manager call made, "" if none.
FinalizeCall(single_statement_txn, init_failure, result) ==
    IF single_statement_txn = TRUE \/ init_failure = TRUE
    THEN IF result = "RESULT_SUCCESS" THEN "CommitTransaction"
         ELSE "AbortTransaction"
    ELSE ""

\* ------------------------------------------------------------------ inputs
\* A plan is [root, nodes], root being the pointer ExecutePlan gets; the
\* caller passes no plan at all, or a tree of 1..MaxPlanNodes nodes.
NullPlan == [root |-> NULL, nodes |-> <<>>]

SingleNodePlan(type) ==
    [root |-> 1, nodes |-> << [type |-> type, parent |-> NULL] >>]

\* The behaviour of the root executor during one execution: whether Init()
\* succeeds, what GetOutput() returns after each Execute() that returns
\* true (has_tile = FALSE is a null tile; tuples are those of base tile 0 in
\* storage order), and the Execute() call during which an executor of the
\* tree sets the transaction's Result to RESULT_FAILURE (0: none does).
\* Execute() returns false once the pulls are used up.
NullTile == [has_tile |-> FALSE, tuples |-> <<>>]

Tiles(k) ==
    { [has_tile |-> TRUE, tuples |-> t] : t \in [1..k -> {0, 1, 2}] }
    \cup (IF k = 0 THEN {NullTile} ELSE {})

RECURSIVE PullSeqs(_, _)
\* The sequences of n pulls that hold at most r tuples in all.
PullSeqs(n, r) ==
    IF n = 0 THEN { <<>> }
    ELSE UNION { { <<p>> \o rest : p \in Tiles(k),
                                   rest \in PullSeqs(n - 1, r - k) } :
                 k \in 0..r }

FailedInit == [init |-> FALSE, pulls |-> <<>>, failAt |-> 0]

Scripts(maxPulls, maxRows) ==
    {FailedInit} \cup
    UNION { { [init |-> TRUE, pulls |-> ps, failAt |-> f] :
                ps \in PullSeqs(n, maxRows), f \in 0..(n + 1) } :
            n \in 0..maxPulls }

\* The transaction ids callers use, and the transaction table before the
\* call: no transaction for the id, or an open one with either Result.
TxnIds == {1}

TxnEntries ==
    { [state |-> "absent", result |-> "RESULT_SUCCESS"],
      [state |-> "active", result |-> "RESULT_SUCCESS"],
      [state |-> "active", result |-> "RESULT_FAILURE"] }

\* ------------------------------------------------------------------- state
VARIABLES
    plan_nodes,            \* the caller's plan tree
    plan,                  \* ExecutePlan's argument plan
    param_list,            \* ExecutePlan's argument param_list
    txn_id,                \* ExecutePlan's argument txn_id
    pstatus,               \* *pstatus: m_result_slots and m_result
    txn_table,             \* the transaction manager's transactions
    txn_table0,            \* txn_table as it was when ExecutePlan was entered
    script,                \* what the root executor does when driven
    exec_pos,              \* Execute() calls made on the root so far
    mem,                   \* executors and executor contexts allocated
    deleted,               \* executor pointers passed to delete, in order
    calls,                 \* calls made on collaborators, in order
    pc,                    \* where ExecutePlan is
    status,                \* local status
    init_failure,          \* local init_failure
    single_statement_txn,  \* local single_statement_txn
    slots,                 \* local slots
    txn,                   \* local txn
    executor_tree,         \* local executor_tree
    run,                   \* 1 during the caller's first call, 2 in its second
    first,                 \* what the caller's first call returned
    other                  \* a concurrent call while it is not running

vars == << plan_nodes, plan, param_list, txn_id, pstatus, txn_table,
           txn_table0, script,
           exec_pos, mem, deleted, calls, pc, status, init_failure,
           single_statement_txn, slots, txn, executor_tree,
           run, first, other >>

inputs == << plan_nodes, plan, param_list, txn_id, script, txn_table0 >>

locals == << status, init_failure, single_statement_txn, slots, txn,
             executor_tree >>

\* What one call does not touch: the caller's record of its previous call
\* and the call of a concurrent caller.
outside == << run, first, other >>

NoTransaction == [state |-> "absent", result |-> "RESULT_SUCCESS"]

\* *pstatus as the caller hands it in.
NoStatus == [m_result_slots |-> <<>>, m_result |-> "unset"]

NoRun == [pstatus |-> NoStatus, entry |-> NoTransaction]

\* The variables of the call that is running, as one record.
Context ==
    [pstatus |-> pstatus, exec_pos |-> exec_pos, mem |-> mem,
     deleted |-> deleted, calls |-> calls, pc |-> pc, status |-> status,
     init_failure |-> init_failure,
     single_statement_txn |-> single_statement_txn, slots |-> slots,
     txn |-> txn, executor_tree |-> executor_tree]

\* A call that has just been entered, and no call at all.
EntryContext ==
    [pstatus |-> NoStatus, exec_pos |-> 0, mem |-> EmptyMem,
     deleted |-> <<>>, calls |-> <<>>, pc |-> "start", status |-> FALSE,
     init_failure |-> FALSE, single_statement_txn |-> FALSE, slots |-> <<>>,
     txn |-> NULL, executor_tree |-> NULL]

NoCall == [EntryContext EXCEPT !.pc = "none"]

\* The state when ExecutePlan is entered with plan p, root behaviour s and
\* transaction table entry e for the id.
Entered(p, s, e, params) ==
    /\ plan_nodes = p.nodes
    /\ plan = p.root
    /\ param_list = params
    /\ txn_id \in TxnIds
    /\ pstatus = NoStatus
    /\ txn_table = [id \in TxnIds |-> e]
    /\ txn_table0 = txn_table
    /\ script = s
    /\ exec_pos = 0
    /\ mem = EmptyMem
    /\ deleted = <<>>
    /\ calls = <<>>
    /\ pc = "start"
    /\ status = FALSE
    /\ init_failure = FALSE
    /\ single_statement_txn = FALSE
    /\ slots = <<>>
    /\ txn = NULL
    /\ executor_tree = NULL
    /\ run = 1
    /\ first = NoRun

\* Every plan shape is run with a root executor that fails Init(); every
\* behaviour of the root executor is run on one-node plans: one whose root
\* gets wrapped, one whose root does not, and one that compiles to no tree.
Init ==
    /\ \/ \E e \in TxnEntries : Entered(NullPlan, FailedInit, e, <<>>)
       \/ \E n \in 1..MaxPlanNodes :
            \E ty \in TypeMaps(n), pa \in ParentMaps(n) :
             Entered([root |-> 1, nodes |-> PlanTree(ty, pa)], FailedInit,
                     NoTransaction, <<>>)
       \/ \E p \in { SingleNodePlan("PLAN_NODE_TYPE_SEQSCAN"),
                     SingleNodePlan("PLAN_NODE_TYPE_UPDATE"),
                     SingleNodePlan("PLAN_NODE_TYPE_INVALID") },
             s \in Scripts(MaxPulls, MaxRows), e \in TxnEntries :
             Entered(p, s, e, <<7>>)
    /\ other = NoCall

\* ------------------------------------------------------------ ExecutePlan
\* `if (plan == nullptr) return;`
ReturnOnNullPlan ==
    /\ pc = "start"
    /\ NothingToExecute(plan)
    /\ pc' = "done"
    /\ UNCHANGED << inputs, outside, locals, pstatus, txn_table, exec_pos, mem,
                    deleted, calls >>

\* `auto txn = txn_manager.GetPGTransaction(txn_id);`
LookupTransaction ==
    /\ pc = "start"
    /\ ~NothingToExecute(plan)
    /\ txn' = GetPGTransaction(txn_table, txn_id)
    /\ calls' = Append(calls, "GetPGTransaction")
    /\ pc' = IF txn' = NULL THEN "start_txn" ELSE "build"
    /\ UNCHANGED << inputs, outside, pstatus, txn_table, exec_pos, mem, deleted,
                    status, init_failure, single_statement_txn, slots,
                    executor_tree >>

\* `if (txn == nullptr) { single_statement_txn = true; txn =
\* txn_manager.StartPGTransaction(txn_id); }`
StartTransaction ==
    /\ pc = "start_txn"
    /\ single_statement_txn' = TRUE
    /\ txn_table' = StartPGTransaction(txn_table, txn_id)
    /\ txn' = txn_id
    /\ calls' = Append(calls, "StartPGTransaction")
    /\ pc' = "build"
    /\ UNCHANGED << inputs, outside, pstatus, exec_pos, mem, deleted, status,
                    init_failure, slots, executor_tree >>

\* `executor_tree = BuildExecutorTree(nullptr, plan, param_list, txn);
\*  executor_tree = AddMaterialization(executor_tree);`
BuildTree ==
    /\ pc = "build"
    /\ LET built == BuildExecutorTree(NULL, plan, param_list, txn,
                                      plan_nodes, mem)
           wrapped == AddMaterialization(built.root, plan_nodes, built.mem)
       IN  /\ executor_tree' = wrapped.root
           /\ mem' = wrapped.mem
    /\ pc' = "init"
    /\ UNCHANGED << inputs, outside, pstatus, txn_table, exec_pos, deleted, calls,
                    status, init_failure, single_statement_txn, slots, txn >>

\* A member call through executor_tree when it is nullptr is undefined
\* behaviour: the process may stop there (this action), or the call may
\* come back with some value (the actions below, which do not look at
\* executor_tree).
NullDereference ==
    /\ pc \in {"init", "execute", "get_output"}
    /\ executor_tree = NULL
    /\ calls' = Append(calls, CASE pc = "init" -> "Init"
                                [] pc = "execute" -> "Execute"
                                [] OTHER -> "GetOutput")
    /\ pc' = "crashed"
    /\ UNCHANGED << inputs, outside, locals, pstatus, txn_table, exec_pos, mem,
                    deleted >>

\* `status = executor_tree->Init(); if (status == false) { init_failure =
\* true; txn->SetResult(Result::RESULT_FAILURE); goto cleanup; }`
InitTree ==
    /\ pc = "init"
    /\ calls' = Append(calls, "Init")
    /\ status' = script.init
    /\ LET after == AfterInit(status', txn_table, txn)
       IN  /\ init_failure' = after.init_failure
           /\ txn_table' = after.table
           /\ pc' = after.pc
    /\ UNCHANGED << inputs, outside, pstatus, exec_pos, mem, deleted,
                    single_statement_txn, slots, txn, executor_tree >>

\* `status = executor_tree->Execute(); if (status == false) break;`
\* An executor of the tree may set the transaction's Result while it runs.
ExecuteTree ==
    /\ pc = "execute"
    /\ calls' = Append(calls, "Execute")
    /\ exec_pos' = exec_pos + 1
    /\ txn_table' = IF script.failAt = exec_pos'
                    THEN SetResult(txn_table, txn, "RESULT_FAILURE")
                    ELSE txn_table
    /\ status' = (exec_pos' <= Len(script.pulls))
    /\ pc' = AfterExecute(status')
    /\ UNCHANGED << inputs, outside, pstatus, mem, deleted, init_failure,
                    single_statement_txn, slots, txn, executor_tree >>

\* `tile(executor_tree->GetOutput()); if (tile.get() == nullptr) continue;`
\* and the extraction of the tile's tuples into slots.
PullTile ==
    /\ pc = "get_output"
    /\ calls' = Append(calls, "GetOutput")
    /\ LET after == AfterGetOutput(slots, script.pulls[exec_pos])
       IN  /\ slots' = after.slots
           /\ pc' = after.pc
    /\ UNCHANGED << inputs, outside, pstatus, txn_table, exec_pos, mem, deleted,
                    status, init_failure, single_statement_txn, txn,
                    executor_tree >>

\* `pstatus->m_result_slots = slots;`
SetResultSlots ==
    /\ pc = "set_slots"
    /\ pstatus' = [pstatus EXCEPT !.m_result_slots = slots]
    /\ pc' = "cleanup"
    /\ UNCHANGED << inputs, outside, locals, txn_table, exec_pos, mem, deleted,
                    calls >>

\* cleanup: `if (single_statement_txn == true || init_failure == true)`
\* commit on RESULT_SUCCESS, abort otherwise.
Finalize ==
    /\ pc = "cleanup"
    /\ LET call == FinalizeCall(single_statement_txn, init_failure,
                                GetResult(txn_table, txn))
       IN  /\ txn_table' = CASE call = "CommitTransaction" ->
                                  CommitTransaction(txn_table, txn)
                             [] call = "AbortTransaction" ->
                                  AbortTransaction(txn_table, txn)
                             [] OTHER -> txn_table
           /\ calls' = IF call = "" THEN calls ELSE Append(calls, call)
    /\ pc' = "clean"
    /\ UNCHANGED << inputs, outside, locals, pstatus, exec_pos, mem, deleted >>

\* A teardown that reports the Result only of a transaction the call began.
TearDownReportsOwnedOnly ==
    /\ pc = "clean"
    /\ deleted' = CleanExecutorTree(executor_tree, mem, deleted)
    /\ calls' = Append(calls, "CleanExecutorTree")
    /\ pstatus' = IF single_statement_txn
                  THEN [pstatus EXCEPT !.m_result = GetResult(txn_table, txn)]
                  ELSE pstatus
    /\ pc' = "done"
    /\ UNCHANGED << inputs, outside, locals, txn_table, exec_pos, mem >>

\* `CleanExecutorTree(executor_tree); pstatus->m_result = txn->GetResult();
\*  return;`
TearDown ==
    /\ pc = "clean"
    /\ deleted' = CleanExecutorTree(executor_tree, mem, deleted)
    /\ calls' = Append(calls, "CleanExecutorTree")
    /\ pstatus' = [pstatus EXCEPT !.m_result = GetResult(txn_table, txn)]
    /\ pc' = "done"
    /\ UNCHANGED << inputs, outside, locals, txn_table, exec_pos, mem >>

Next ==
    \/ ReturnOnNullPlan
    \/ LookupTransaction
    \/ StartTransaction
    \/ BuildTree
    \/ NullDereference
    \/ InitTree
    \/ ExecuteTree
    \/ PullTile
    \/ SetResultSlots
    \/ Finalize
    \/ TearDown

Spec == Init /\ [][Next]_vars

\* ------------------------------------------------------- a second call
\* Once ExecutePlan has returned, the caller calls it again with the same
\* plan and parameters and a transaction id not used so far (for which the
\* transaction manager has no transaction); the root executor behaves as it
\* did in the first call.  Everything local to the call starts afresh.
Rerun ==
    /\ pc = "done"
    /\ run = 1
    /\ other.pc = "none"
    /\ run' = 2
    /\ first' = [pstatus |-> pstatus, entry |-> txn_table0[txn_id]]
    /\ txn_id' = txn_id + 1
    /\ txn_table' = [id \in DOMAIN txn_table \cup {txn_id'} |->
                       IF id \in DOMAIN txn_table THEN txn_table[id]
                       ELSE NoTransaction]
    /\ txn_table0' = txn_table'
    /\ pstatus' = NoStatus
    /\ exec_pos' = 0
    /\ mem' = EmptyMem
    /\ deleted' = <<>>
    /\ calls' = <<>>
    /\ pc' = "start"
    /\ status' = FALSE
    /\ init_failure' = FALSE
    /\ single_statement_txn' = FALSE
    /\ slots' = <<>>
    /\ txn' = NULL
    /\ executor_tree' = NULL
    /\ UNCHANGED << plan_nodes, plan, param_list, script, other >>

\* The null plan and the one-node plans that read only: one that compiles
\* to a tree and one that compiles to none, with every behaviour of the root
\* executor and every state of the first call's transaction.
InitRerun ==
    /\ \/ \E e \in TxnEntries : Entered(NullPlan, FailedInit, e, <<>>)
       \/ \E p \in { SingleNodePlan("PLAN_NODE_TYPE_SEQSCAN"),
                     SingleNodePlan("PLAN_NODE_TYPE_INVALID") },
             s \in Scripts(MaxPulls, MaxRows), e \in TxnEntries :
             Entered(p, s, e, <<7>>)
    /\ other = NoCall

NextRerun == Next \/ Rerun

SpecRerun == InitRerun /\ [][NextRerun]_vars

\* ---------------------------------------------------- a concurrent call
\* Two threads are in ExecutePlan with the same arguments.  Nothing in
\* ExecutePlan synchronises them, so the scheduler may switch from the one
\* that is running to the other between any two steps.  A call that has
\* returned is not resumed, and nothing runs once the process has crashed.
Yield ==
    /\ pc # "crashed"
    /\ other.pc \notin {"none", "done", "crashed"}
    /\ other' = Context
    /\ pstatus' = other.pstatus
    /\ exec_pos' = other.exec_pos
    /\ mem' = other.mem
    /\ deleted' = other.deleted
    /\ calls' = other.calls
    /\ pc' = other.pc
    /\ status' = other.status
    /\ init_failure' = other.init_failure
    /\ single_statement_txn' = other.single_statement_txn
    /\ slots' = other.slots
    /\ txn' = other.txn
    /\ executor_tree' = other.executor_tree
    /\ UNCHANGED << inputs, txn_table, run, first >>

\* Both calls have just been entered; one-node plans and the null plan, a
\* root executor that is pulled at most once.
InitConcurrent ==
    /\ \/ \E e \in TxnEntries : Entered(NullPlan, FailedInit, e, <<>>)
       \/ \E p \in { SingleNodePlan("PLAN_NODE_TYPE_SEQSCAN"),
                     SingleNodePlan("PLAN_NODE_TYPE_INVALID") },
             s \in Scripts(1, 1), e \in TxnEntries :
             Entered(p, s, e, <<7>>)
    /\ other = EntryContext

NextConcurrent == Next \/ Yield

SpecConcurrent == InitConcurrent /\ [][NextConcurrent]_vars

\* -------------------------------------------------------------- properties
Count(seq, x) == Cardinality({ i \in DOMAIN seq : seq[i] = x })

Called(x) == \E i \in DOMAIN calls : calls[i] = x

\* The lookup of txn_id finds no handle / finds one.
Implicit == txn_table0[txn_id].state # "active"
PreExisting == txn_table0[txn_id].state = "active"

\* The root's Init() was called and returned false.
InitReturnedFalse == Called("Init") /\ ~script.init /\ pc # "crashed"

Finalized == pc \in {"clean", "done"}

Closings == Count(calls, "CommitTransaction") + Count(calls, "AbortTransaction")

\* C1: for an implicit transaction (the lookup found no handle), a call on a
\* non-null plan has issued exactly one of commit and abort once the
\* finalizer has run and when it returns, none before, never both; it is a
\* commit exactly when the transaction's Result is RESULT_SUCCESS then.
C1_ImplicitClosedExactlyOnce ==
    (plan # NULL /\ Implicit) =>
        /\ Closings <= 1
        /\ ~Finalized => Closings = 0
        /\ Finalized =>
             /\ Closings = 1
             /\ Called("CommitTransaction")
                  <=> GetResult(txn_table, txn_id) = "RESULT_SUCCESS"
             /\ txn_table[txn_id].state =
                  (IF GetResult(txn_table, txn_id) = "RESULT_SUCCESS"
                   THEN "committed" ELSE "aborted")

\* An implicit transaction committed after rows were produced.
C1_Witness ==
    /\ pc = "done" /\ plan # NULL /\ Implicit
    /\ Called("StartPGTransaction") /\ Called("CommitTransaction")
    /\ Len(pstatus.m_result_slots) > 0

\* C2: when the lookup found a handle and Init() did not fail, the call
\* begins no transaction and issues neither commit nor abort, the
\* transaction stays open, and the result reported is its Result, also when
\* an executor set RESULT_FAILURE during the pull loop.
C2_PreExistingLeftOpen ==
    (plan # NULL /\ PreExisting /\ ~InitReturnedFalse) =>
        /\ ~Called("StartPGTransaction")
        /\ ~Called("CommitTransaction")
        /\ ~Called("AbortTransaction")
        /\ txn_table[txn_id].state = "active"
        /\ pc = "done" => pstatus.m_result = GetResult(txn_table, txn_id)

\* A caller's transaction on which an executor set RESULT_FAILURE during
\* the pull loop, after the call returned.
C2_Witness ==
    /\ pc = "done" /\ PreExisting /\ script.init /\ script.failAt > 0
    /\ txn_table0[txn_id].result = "RESULT_SUCCESS"
    /\ txn_table[txn_id] = [state |-> "active", result |-> "RESULT_FAILURE"]
    /\ pstatus.m_result = "RESULT_FAILURE"

\* C3: once the root's Init() has returned false, no Execute() and no
\* GetOutput() is called, the output holds no rows, the transaction's Result
\* is RESULT_FAILURE and that is the result reported.
C3_InitFailure ==
    InitReturnedFalse =>
        /\ ~Called("Execute")
        /\ ~Called("GetOutput")
        /\ pc \in {"cleanup", "clean", "done"}
        /\ pstatus.m_result_slots = <<>>
        /\ GetResult(txn_table, txn_id) = "RESULT_FAILURE"
        /\ pc = "done" => pstatus.m_result = "RESULT_FAILURE"

\* A call whose tree was built and whose Init() failed, after it returned.
C3_Witness ==
    /\ pc = "done" /\ InitReturnedFalse /\ executor_tree # NULL
    /\ txn_table0[txn_id].result = "RESULT_SUCCESS"
    /\ pstatus.m_result = "RESULT_FAILURE"

Compiled == pc \notin {"start", "start_txn", "build"}

Supported(type) ==
    type \notin {"PLAN_NODE_TYPE_INVALID", "PLAN_NODE_TYPE_OTHER"}

AllSupported == \A i \in DOMAIN plan_nodes : Supported(plan_nodes[i].type)

\* C4: when a non-null plan compiles to no tree, the call makes no Init()
\* and no Execute() call, returns no rows and issues no begin, commit or
\* abort.
C4_NullTreeNoEffects ==
    (plan # NULL /\ Compiled /\ executor_tree = NULL) =>
        /\ ~Called("Init")
        /\ ~Called("Execute")
        /\ ~Called("StartPGTransaction")
        /\ ~Called("CommitTransaction")
        /\ ~Called("AbortTransaction")
        /\ pstatus.m_result_slots = <<>>

RECURSIVE Mirrors(_, _)
\* The executor subtree at e has the shape of the plan subtree at p: e was
\* made from p, with the class of p's type, and its children mirror p's
\* children one for one, in order.
Mirrors(e, p) ==
    LET ex == mem.executors[e]
        kids == GetPlanChildren(plan_nodes, p)
    IN  /\ ex.node = p
        /\ ex.class = ExecutorClass(plan_nodes[p].type)
        /\ Len(ex.children) = Len(kids)
        /\ \A i \in 1..Len(kids) : Mirrors(ex.children[i], kids[i])

\* C5: for a plan whose nodes all have supported types, the tree handed to
\* Init() has one executor per plan node in the plan's shape and child
\* order, under one extra MaterializationExecutor root exactly when the plan
\* root is a merge join, nested loop join, sequential scan, index scan or
\* limit.
C5_TreeMirrorsPlan ==
    (plan # NULL /\ AllSupported /\ Compiled) =>
        LET wrap == plan_nodes[plan].type \in
                      { "PLAN_NODE_TYPE_MERGEJOIN", "PLAN_NODE_TYPE_NESTLOOP",
                        "PLAN_NODE_TYPE_SEQSCAN", "PLAN_NODE_TYPE_INDEXSCAN",
                        "PLAN_NODE_TYPE_LIMIT" }
        IN  /\ executor_tree # NULL
            /\ Len(mem.executors) = Len(plan_nodes) + (IF wrap THEN 1 ELSE 0)
            /\ IF wrap
               THEN LET top == mem.executors[executor_tree]
                    IN  /\ top.class = "MaterializationExecutor"
                        /\ top.node = NULL
                        /\ Len(top.children) = 1
                        /\ Mirrors(top.children[1], plan)
               ELSE Mirrors(executor_tree, plan)

\* A nested loop join over two different scans, wrapped, after the call.
C5_Witness ==
    /\ pc = "done" /\ AllSupported /\ Len(plan_nodes) = 3
    /\ plan_nodes[1].type = "PLAN_NODE_TYPE_NESTLOOP"
    /\ plan_nodes[2] = [type |-> "PLAN_NODE_TYPE_SEQSCAN", parent |-> 1]
    /\ plan_nodes[3] = [type |-> "PLAN_NODE_TYPE_INDEXSCAN", parent |-> 1]
    /\ Len(mem.executors) = 4
    /\ mem.executors[1].children = <<2, 3>>

\* C6: a non-null plan compiles to no tree exactly when none of its nodes
\* has a supported type.
C6_NullIffNoSupportedNode ==
    (plan # NULL /\ Compiled) =>
        (executor_tree = NULL <=>
            \A i \in DOMAIN plan_nodes : ~Supported(plan_nodes[i].type))

\* C7: when a call that compiled its plan to a tree returns, every executor
\* allocated during it has been deleted exactly once.
C7_EveryExecutorDeletedOnce ==
    (pc = "done" /\ executor_tree # NULL) =>
        \A e \in 1..Len(mem.executors) : Count(deleted, e) = 1

\* The host rows of a tile's tuples: those with a host representation, in
\* storage order.
HostRows(tuples) ==
    LET ok == SelectSeq(tuples, LAMBDA t : GetPostgresTuple(t) # <<>>)
    IN  [i \in 1..Len(ok) |-> GetPostgresTuple(ok[i])[1]]

RECURSIVE ExpectedRows(_)
\* The rows of the non-null tiles among pulls, tile after tile.
ExpectedRows(pulls) ==
    IF pulls = <<>> THEN <<>>
    ELSE (IF Head(pulls).has_tile THEN HostRows(Head(pulls).tuples)
          ELSE <<>>)
         \o ExpectedRows(Tail(pulls))

\* C8: the rows gathered are those of the non-null tiles GetOutput() has
\* returned so far, in pull order and storage order, less the tuples without
\* a host representation; GetOutput() is called for no Execute() that
\* returned false; and the rows handed to the caller are those of all the
\* tiles.
C8_RowsInPullOrder ==
    pc # "crashed" =>
        /\ Count(calls, "GetOutput") <= Len(script.pulls)
        /\ slots = ExpectedRows(SubSeq(script.pulls, 1,
                                       Count(calls, "GetOutput")))
        /\ pc \in {"cleanup", "clean", "done"} =>
             pstatus.m_result_slots = ExpectedRows(script.pulls)

\* Two one-row tiles whose rows reach the caller in pull order.
C8_Witness ==
    /\ pc = "done" /\ Len(script.pulls) = 2
    /\ script.pulls[1] = [has_tile |-> TRUE, tuples |-> <<2>>]
    /\ script.pulls[2] = [has_tile |-> TRUE, tuples |-> <<1>>]
    /\ pstatus.m_result_slots = << [tts_values |-> 2], [tts_values |-> 1] >>

AllNullTiles == \A i \in DOMAIN script.pulls : ~script.pulls[i].has_tile

\* C9: after a GetOutput() that returned a null tile the driver has taken
\* no rows and is about to call Execute() again; and a call on an implicit
\* transaction whose root returns a null tile on every pull, with no
\* executor failing, makes every pull, returns no rows, reports
\* RESULT_SUCCESS and commits.
C9_NullTileContinues ==
    /\ ( /\ pc # "crashed" /\ calls # <<>>
         /\ calls[Len(calls)] = "GetOutput"
         /\ ~script.pulls[exec_pos].has_tile )
       => ( /\ pc = "execute"
            /\ slots = ExpectedRows(SubSeq(script.pulls, 1, exec_pos - 1)) )
    /\ ( /\ pc = "done" /\ plan # NULL /\ Implicit
         /\ script.init /\ script.failAt = 0 /\ AllNullTiles )
       => ( /\ Count(calls, "Execute") = Len(script.pulls) + 1
            /\ Count(calls, "GetOutput") = Len(script.pulls)
            /\ pstatus.m_result_slots = <<>>
            /\ pstatus.m_result = "RESULT_SUCCESS"
            /\ Count(calls, "CommitTransaction") = 1
            /\ ~Called("AbortTransaction") )

\* An Update plan whose root returned a null tile on each of two pulls.
C9_Witness ==
    /\ pc = "done" /\ Implicit /\ script.init /\ script.failAt = 0
    /\ plan_nodes[1].type = "PLAN_NODE_TYPE_UPDATE"
    /\ Len(script.pulls) = 2 /\ AllNullTiles
    /\ Count(calls, "Execute") = 3
    /\ Called("CommitTransaction")

\* C10: a call with a null plan returns at once: no collaborator is called,
\* nothing is allocated or deleted, and the transaction table and the
\* caller's output are as they were.
C10_NullPlanReturns ==
    plan = NULL =>
        /\ pc \in {"start", "done"}
        /\ calls = <<>>
        /\ mem = EmptyMem
        /\ deleted = <<>>
        /\ txn_table = txn_table0
        /\ pstatus = [m_result_slots |-> <<>>, m_result |-> "unset"]

\* A call with a null plan has returned while the caller's transaction is
\* open.
C10_Witness == pc = "done" /\ plan = NULL /\ PreExisting

\* What BuildExecutorTree handed to AddMaterialization in this call.
Built == BuildExecutorTree(NULL, plan, param_list, txn, plan_nodes, EmptyMem)

\* C11: AddMaterialization returns null for a null root; for a root made
\* from a merge join, nested loop join, sequential scan, index scan or limit
\* node it returns a new MaterializationExecutor without plan node and
\* without context whose only child is that root, every other executor being
\* as it was; for any other root it returns that root and allocates nothing.
\* Stated of the tree ExecutePlan holds when AddMaterialization has returned.
C11_AddMaterialization ==
    (plan # NULL /\ pc = "init") =>
        LET built == Built
            made == built.mem.executors
        IN  IF built.root = NULL
            THEN executor_tree = NULL /\ mem = built.mem
            ELSE IF plan_nodes[made[built.root].node].type \in
                      { "PLAN_NODE_TYPE_MERGEJOIN", "PLAN_NODE_TYPE_NESTLOOP",
                        "PLAN_NODE_TYPE_SEQSCAN", "PLAN_NODE_TYPE_INDEXSCAN",
                        "PLAN_NODE_TYPE_LIMIT" }
            THEN /\ executor_tree = Len(made) + 1
                 /\ mem.contexts = built.mem.contexts
                 /\ mem.executors =
                      Append(made,
                             [class |-> "MaterializationExecutor",
                              node |-> NULL, context |-> NULL,
                              children |-> <<built.root>>])
            ELSE executor_tree = built.root /\ mem = built.mem

\* A limit over a projection, wrapped, when AddMaterialization has returned.
C11_Witness ==
    /\ pc = "init" /\ Len(plan_nodes) = 2
    /\ plan_nodes[1].type = "PLAN_NODE_TYPE_LIMIT"
    /\ plan_nodes[2].type = "PLAN_NODE_TYPE_PROJECTION"
    /\ executor_tree = 3
    /\ mem.executors[3] = [class |-> "MaterializationExecutor",
                           node |-> NULL, context |-> NULL,
                           children |-> <<1>>]

RECURSIVE NearestBuiltAncestor(_)
\* The nearest ancestor of plan node p for which an executor is constructed,
\* NULL if there is none.
NearestBuiltAncestor(p) ==
    LET q == plan_nodes[p].parent
    IN  IF q = NULL THEN NULL
        ELSE IF Supported(plan_nodes[q].type) THEN q
        ELSE NearestBuiltAncestor(q)

ExecutorsOf(p) ==
    { e \in 1..Len(mem.executors) : mem.executors[e].node = p }

IsChildOf(child, parent) ==
    \E i \in 1..Len(mem.executors[parent].children) :
        mem.executors[parent].children[i] = child

Reachable(e) ==
    \E i \in 1..Len(CleanExecutorTree(executor_tree, mem, <<>>)) :
        CleanExecutorTree(executor_tree, mem, <<>>)[i] = e

\* C12: when the caller runs the same plan again under a new transaction
\* id, with the root executor behaving as before, and each run returns, the
\* second run returns the same row sequence and the same final result as
\* the first.  (Plans that compile to no tree are left out: what a call does
\* with them is not defined, see C4.)
BothRunsReturned ==
    run = 2 /\ pc = "done" /\ (plan = NULL \/ executor_tree # NULL)

C12_RerunSameRowsAndResult ==
    BothRunsReturned =>
        /\ pstatus.m_result_slots = first.pstatus.m_result_slots
        /\ pstatus.m_result = first.pstatus.m_result

\* C12, amended: the second run returns the same row sequence as the first,
\* and the same final result provided the transaction of the first run did
\* not carry RESULT_FAILURE already when that run was entered.
C12_RerunSameRows ==
    BothRunsReturned =>
        /\ pstatus.m_result_slots = first.pstatus.m_result_slots
        /\ first.entry.result = "RESULT_SUCCESS"
             => pstatus.m_result = first.pstatus.m_result

\* The first run under a caller's transaction, the second under one of its
\* own; rows were produced and an executor failed during the pull loop.
C12_Witness ==
    /\ BothRunsReturned /\ executor_tree # NULL
    /\ first.entry = [state |-> "active", result |-> "RESULT_SUCCESS"]
    /\ single_statement_txn
    /\ Len(pstatus.m_result_slots) > 0
    /\ script.failAt > 0
    /\ pstatus.m_result = "RESULT_FAILURE"

\* C13: every plan node with a supported type, also one below a skipped
\* node, has its executor in the tree handed to Init(): reachable from the
\* root and a direct child of the executor of its nearest ancestor that has
\* one (so the executors of siblings are never nested in one another).
C13_SkippedNodesChildrenAttached ==
    (plan # NULL /\ Compiled) =>
        \A p \in DOMAIN plan_nodes :
            Supported(plan_nodes[p].type) =>
                /\ Cardinality(ExecutorsOf(p)) = 1
                /\ \A e \in ExecutorsOf(p) :
                     /\ Reachable(e)
                     /\ NearestBuiltAncestor(p) # NULL =>
                          \A a \in ExecutorsOf(NearestBuiltAncestor(p)) :
                              IsChildOf(e, a)

\* The calls made on the root executor, in order.
RootCalls == SelectSeq(calls, LAMBDA c : c \in {"Init", "Execute", "GetOutput"})

\* C14: on a non-null plan the first call made on the root is Init() and it
\* is made once; Execute() is called only after Init() returned true;
\* GetOutput() is called only right after an Execute() that returned true;
\* and the Execute() that returns false is the last call made on the root.
C14_PullProtocol ==
    plan # NULL =>
        LET made == RootCalls
            \* Execute() calls among the first i root calls
            ExecutesUpTo(i) ==
                Cardinality({ j \in 1..i : made[j] = "Execute" })
        IN  /\ pc \in {"execute", "get_output", "set_slots", "cleanup",
                       "clean", "done"} => Len(made) >= 1
            /\ \A i \in 1..Len(made) :
                 /\ made[i] = "Init" <=> i = 1
                 /\ made[i] = "Execute" =>
                      /\ script.init
                      /\ ExecutesUpTo(i - 1) <= Len(script.pulls)
                 /\ made[i] = "GetOutput" =>
                      /\ made[i - 1] = "Execute"
                      /\ ExecutesUpTo(i) <= Len(script.pulls)

\* A call that made two pulls, the first yielding a null tile, and has
\* returned.
C14_Witness ==
    /\ pc = "done" /\ executor_tree # NULL
    /\ RootCalls = << "Init", "Execute", "GetOutput", "Execute", "GetOutput",
                      "Execute" >>
    /\ ~script.pulls[1].has_tile /\ script.pulls[2].has_tile

\* C15: a call on a non-null plan stops only after it has run the
\* finalizer, torn down the executor tree and reported the transaction's
\* Result.
C15_StopsOnlyAfterTeardown ==
    (plan # NULL /\ ~ENABLED Next) =>
        /\ pc = "done"
        /\ Called("CleanExecutorTree")
        /\ pstatus.m_result = GetResult(txn_table, txn_id)

\* C16: when Init() returns false on a transaction the caller supplied, the
\* finalizer aborts that transaction, once, and does not commit it.
C16_InitFailureAbortsCallersTxn ==
    (PreExisting /\ InitReturnedFalse) =>
        /\ ~Called("CommitTransaction")
        /\ ~Called("StartPGTransaction")
        /\ Count(calls, "AbortTransaction") = (IF Finalized THEN 1 ELSE 0)
        /\ Finalized => txn_table[txn_id].state = "aborted"

\* A caller's transaction, entered with RESULT_SUCCESS, aborted after
\* Init() failed on a built tree.
C16_Witness ==
    /\ pc = "done" /\ PreExisting /\ InitReturnedFalse
    /\ executor_tree # NULL
    /\ txn_table0[txn_id].result = "RESULT_SUCCESS"
    /\ txn_table[txn_id] = [state |-> "aborted", result |-> "RESULT_FAILURE"]

\* C17: compilation allocates one context per plan node, each holding the
\* call's transaction and the values of its param_list, and each held by
\* exactly one executor.
C17_OneOwnedContextPerNode ==
    (plan # NULL /\ Compiled) =>
        /\ Len(mem.contexts) = Len(plan_nodes)
        /\ \A c \in 1..Len(mem.contexts) :
             /\ mem.contexts[c] = [txn |-> txn,
                                   params |-> BuildParams(param_list)]
             /\ Cardinality({ e \in 1..Len(mem.executors) :
                                mem.executors[e].context = c }) = 1

\* An executor of the tree set RESULT_FAILURE during an Execute() call that
\* was made.
ExecutorFailed ==
    script.failAt > 0 /\ script.failAt <= Count(calls, "Execute")

\* C18: of two concurrent calls with the same transaction id for which
\* there is no transaction, at most one takes the transaction as its own, so
\* the transaction is begun at most once by the two calls together.  (Once a
\* call has committed or aborted it, a later lookup finds no transaction
\* again; the claim is about the calls up to then.)
BothCalls(x) == Count(calls, x) + Count(other.calls, x)

C18_BegunBySingleCall ==
    (/\ Implicit
     /\ other.pc # "none"
     /\ BothCalls("CommitTransaction") + BothCalls("AbortTransaction") = 0) =>
        /\ ~(single_statement_txn /\ other.single_statement_txn)
        /\ BothCalls("StartPGTransaction") <= 1

\* C19: the result reported is the transaction's Result as it stands after
\* the finalizer; it is RESULT_SUCCESS only if Init() did not fail and no
\* executor set RESULT_FAILURE during the call; and an implicit transaction
\* for which RESULT_FAILURE is reported was aborted and not committed.
C19_ReportedResult ==
    pc = "done" /\ plan # NULL =>
        /\ pstatus.m_result = GetResult(txn_table, txn_id)
        /\ pstatus.m_result = "RESULT_SUCCESS" =>
             ~InitReturnedFalse /\ ~ExecutorFailed
        /\ (Implicit /\ pstatus.m_result = "RESULT_FAILURE") =>
             /\ Count(calls, "AbortTransaction") = 1
             /\ ~Called("CommitTransaction")
             /\ txn_table[txn_id].state = "aborted"

\* An implicit transaction aborted, and RESULT_FAILURE reported, after an
\* executor failed during the second pull.
C19_Witness ==
    /\ pc = "done" /\ Implicit /\ script.init /\ script.failAt = 2
    /\ Len(script.pulls) = 2
    /\ pstatus.m_result = "RESULT_FAILURE"
    /\ txn_table[txn_id].state = "aborted"

====
